---------------------------- MODULE Spec2Model ----------------------------
(***************************************************************************)
(* Model of the two resampling tools of data-recammaster:                  *)
(*   change_camera_framecount.py  (pose tool:  main, resample_poses)       *)
(*   change_video_framecount.py   (video tool: main, resample_frames)      *)
(*                                                                         *)
(* Numbers.  Python floats are modelled by exact rationals <<n, d>> with   *)
(* d > 0 in lowest terms.  A value that no rational represents (the square *)
(* root of a non-square, the sine or cosine of a non-zero angle) is the    *)
(* absorbing value Inexact = <<0, 0>>: every operation on it yields        *)
(* Inexact again, except a product with an exact zero, which is zero as it *)
(* is for every finite float.  Source items are always exact, so an        *)
(* Inexact entry never equals an entry of a source item.                   *)
(***************************************************************************)
EXTENDS Integers, Sequences, FiniteSets, TLC

(***************************************************************************)
(* Bounds of the model.                                                    *)
(***************************************************************************)
MaxPoses == 3
MaxFrames == 3
MaxReported == 3
MaxTarget == 3

(***************************************************************************)
(* Rational arithmetic standing for Python's float arithmetic.             *)
(***************************************************************************)
Abs(x) == IF x < 0 THEN -x ELSE x

RECURSIVE Gcd(_, _)
Gcd(a, b) == IF b = 0 THEN a ELSE Gcd(b, a % b)

Inexact == <<0, 0>>

IsExact(a) == a[2] # 0

Rat(n, d) ==
    IF d = 0 THEN Inexact
    ELSE LET s == IF d < 0 THEN -1 ELSE 1
             g == Gcd(Abs(n), Abs(d))
         IN  <<(s * n) \div g, (s * d) \div g>>

RInt(n) == <<n, 1>>

IsZero(a) == IsExact(a) /\ a[1] = 0

RNeg(a) == IF IsExact(a) THEN <<-a[1], a[2]>> ELSE Inexact

RAdd(a, b) ==
    IF IsExact(a) /\ IsExact(b)
    THEN Rat(a[1] * b[2] + b[1] * a[2], a[2] * b[2])
    ELSE Inexact

RSub(a, b) == RAdd(a, RNeg(b))

RMul(a, b) ==
    IF IsZero(a) \/ IsZero(b) THEN RInt(0)
    ELSE IF IsExact(a) /\ IsExact(b) THEN Rat(a[1] * b[1], a[2] * b[2])
    ELSE Inexact

RDiv(a, b) ==
    IF IsExact(a) /\ IsExact(b) THEN Rat(a[1] * b[2], a[2] * b[1])
    ELSE Inexact

RLt(a, b) == a[1] * b[2] < b[1] * a[2]

RFloor(a) == a[1] \div a[2]

IsSquare(n) == n >= 0 /\ \E r \in 0..n : r * r = n

ISqrt(n) == CHOOSE r \in 0..n : r * r = n

\* math.sqrt: exact on a rational whose numerator and denominator are squares.
RSqrt(a) ==
    IF IsExact(a) /\ IsSquare(a[1]) /\ IsSquare(a[2])
    THEN <<ISqrt(a[1]), ISqrt(a[2])>>
    ELSE Inexact

\* math.cos, math.sin: rational only at the angle 0.
RCos(theta) == IF IsZero(theta) THEN RInt(1) ELSE Inexact

RSin(theta) == IF IsZero(theta) THEN RInt(0) ELSE Inexact

\* math.acos(max(min(dot, 1.0), -1.0)): rational only at 1.
RAcosClamped(dot) ==
    IF IsExact(dot) /\ ~RLt(dot, RInt(1)) THEN RInt(0) ELSE Inexact

\* Rounding to the nearest integer, halves to the even one (cvRound).
RRound(a) ==
    LET f == RFloor(a)
        twice == 2 * (a[1] - f * a[2])
    IN  IF twice < a[2] THEN f
        ELSE IF twice > a[2] THEN f + 1
        ELSE IF f % 2 = 0 THEN f ELSE f + 1

(***************************************************************************)
(* Python list indexing: index j of a list, negative j counted from the    *)
(* end; an index outside the list raises IndexError.                       *)
(***************************************************************************)
PyIndexOK(list, j) ==
    IF j >= 0 THEN j < Len(list) ELSE -j <= Len(list)

PyGet(list, j) ==
    IF j >= 0 THEN list[j + 1] ELSE list[Len(list) + j + 1]


(***************************************************************************)
(* change_camera_framecount.py: 4x4 pose matrices, rotations, quaternions. *)
(* A matrix is a tuple of rows; Python's mat[i][j] is mat[i + 1][j + 1].   *)
(***************************************************************************)
Vec4Norm(q) ==
    RSqrt(RAdd(RAdd(RMul(q[1], q[1]), RMul(q[2], q[2])),
               RAdd(RMul(q[3], q[3]), RMul(q[4], q[4]))))

Vec4Div(q, s) == [c \in 1..4 |-> RDiv(q[c], s)]

Vec4Scale(q, s) == [c \in 1..4 |-> RMul(q[c], s)]

Vec4Add(a, b) == [c \in 1..4 |-> RAdd(a[c], b[c])]

Vec4Sub(a, b) == [c \in 1..4 |-> RSub(a[c], b[c])]

Vec4Dot(a, b) ==
    RAdd(RAdd(RMul(a[1], b[1]), RMul(a[2], b[2])),
         RAdd(RMul(a[3], b[3]), RMul(a[4], b[4])))

mat4_to_rt(mat) ==
    [R |-> [i \in 1..3 |-> [j \in 1..3 |-> mat[i][j]]],
     t |-> [i \in 1..3 |-> mat[i][4]]]

rt_to_mat4(R, t) ==
    [i \in 1..4 |->
        IF i <= 3 THEN <<R[i][1], R[i][2], R[i][3], t[i]>>
        ELSE <<RInt(0), RInt(0), RInt(0), RInt(1)>>]

rot_to_quat(m) ==
    LET trace == RAdd(RAdd(m[1][1], m[2][2]), m[3][3])
        one == RInt(1)
        two == RInt(2)
        half == Rat(1, 2)
        quarter == Rat(1, 4)
        q == IF RLt(RInt(0), trace)
             THEN LET s == RDiv(half, RSqrt(RAdd(trace, one)))
                  IN  <<RDiv(quarter, s),
                        RMul(RSub(m[3][2], m[2][3]), s),
                        RMul(RSub(m[1][3], m[3][1]), s),
                        RMul(RSub(m[2][1], m[1][2]), s)>>
             ELSE IF RLt(m[2][2], m[1][1]) /\ RLt(m[3][3], m[1][1])
             THEN LET s == RMul(two, RSqrt(RSub(RSub(RAdd(one, m[1][1]), m[2][2]), m[3][3])))
                  IN  <<RDiv(RSub(m[3][2], m[2][3]), s),
                        RMul(quarter, s),
                        RDiv(RAdd(m[1][2], m[2][1]), s),
                        RDiv(RAdd(m[1][3], m[3][1]), s)>>
             ELSE IF RLt(m[3][3], m[2][2])
             THEN LET s == RMul(two, RSqrt(RSub(RSub(RAdd(one, m[2][2]), m[1][1]), m[3][3])))
                  IN  <<RDiv(RSub(m[1][3], m[3][1]), s),
                        RDiv(RAdd(m[1][2], m[2][1]), s),
                        RMul(quarter, s),
                        RDiv(RAdd(m[2][3], m[3][2]), s)>>
             ELSE LET s == RMul(two, RSqrt(RSub(RSub(RAdd(one, m[3][3]), m[1][1]), m[2][2])))
                  IN  <<RDiv(RSub(m[2][1], m[1][2]), s),
                        RDiv(RAdd(m[1][3], m[3][1]), s),
                        RDiv(RAdd(m[2][3], m[3][2]), s),
                        RMul(quarter, s)>>
    IN  Vec4Div(q, Vec4Norm(q))

quat_to_rot(q) ==
    LET w == q[1]
        x == q[2]
        y == q[3]
        z == q[4]
        two == RInt(2)
        ww == RMul(w, w)
        xx == RMul(x, x)
        yy == RMul(y, y)
        zz == RMul(z, z)
        xy == RMul(x, y)
        xz == RMul(x, z)
        yz == RMul(y, z)
        wx == RMul(w, x)
        wy == RMul(w, y)
        wz == RMul(w, z)
    IN  << <<RSub(RSub(RAdd(ww, xx), yy), zz),
             RMul(two, RSub(xy, wz)),
             RMul(two, RAdd(xz, wy))>>,
           <<RMul(two, RAdd(xy, wz)),
             RSub(RAdd(RSub(ww, xx), yy), zz),
             RMul(two, RSub(yz, wx))>>,
           <<RMul(two, RSub(xz, wy)),
             RMul(two, RAdd(yz, wx)),
             RAdd(RSub(RSub(ww, xx), yy), zz)>> >>

DOT_THRESHOLD == Rat(9995, 10000)

quat_slerp(qa, qb, t) ==
    LET q0 == Vec4Div(qa, Vec4Norm(qa))
        q1n == Vec4Div(qb, Vec4Norm(qb))
        dot0 == Vec4Dot(q0, q1n)
        flip == RLt(dot0, RInt(0))
        q1 == IF flip THEN [c \in 1..4 |-> RNeg(q1n[c])] ELSE q1n
        dot == IF flip THEN RNeg(dot0) ELSE dot0
    IN  IF RLt(DOT_THRESHOLD, dot)
        THEN LET result == Vec4Add(q0, Vec4Scale(Vec4Sub(q1, q0), t))
             IN  Vec4Div(result, Vec4Norm(result))
        ELSE LET theta_0 == RAcosClamped(dot)
                 theta == RMul(theta_0, t)
                 q2raw == Vec4Sub(q1, Vec4Scale(q0, dot))
                 q2 == Vec4Div(q2raw, Vec4Norm(q2raw))
             IN  Vec4Add(Vec4Scale(q0, RCos(theta)), Vec4Scale(q2, RSin(theta)))

(***************************************************************************)
(* Index mapping and the per-index body of resample_poses.                 *)
(***************************************************************************)
\* Faulty variant: the target indices mapped in reverse order.
PoseIndex_reversed(k, N, M) ==
    LET p == Rat((M - 1 - k) * N, M)
        i == RFloor(p)
    IN  [p |-> p, i |-> i, alpha |-> RSub(p, RInt(i))]

PoseIndex(k, N, M) ==
    LET p == Rat(k * N, M)
        i == RFloor(p)
    IN  [p |-> p, i |-> i, alpha |-> RSub(p, RInt(i))]

\* for k in range(M)
PoseRange(k, M) == k < M

resample_poses_at(poses, k, M) ==
    LET N == Len(poses)
        ix == PoseIndex(k, N, M)
        i == ix.i
        alpha == ix.alpha
    IN  IF i < 0 THEN PyGet(poses, 0)
        ELSE IF i >= N - 1 THEN PyGet(poses, -1)
        ELSE LET a == mat4_to_rt(PyGet(poses, i))
                 b == mat4_to_rt(PyGet(poses, i + 1))
                 q == quat_slerp(rot_to_quat(a.R), rot_to_quat(b.R), alpha)
                 t == [c \in 1..3 |->
                          RAdd(RMul(RSub(RInt(1), alpha), a.t[c]),
                               RMul(alpha, b.t[c]))]
                 R == quat_to_rot(q)
             IN  rt_to_mat4(R, t)

(***************************************************************************)
(* Source poses the input document may hold: rotations whose quaternion    *)
(* has rational components (identity, half turns about two axes, a third   *)
(* of a turn about the diagonal), one per branch of rot_to_quat,           *)
(* each at its own translation.                                            *)
(***************************************************************************)
MkPose(R, t) ==
    [i \in 1..4 |->
        IF i <= 3 THEN <<RInt(R[i][1]), RInt(R[i][2]), RInt(R[i][3]), RInt(t[i])>>
        ELSE <<RInt(0), RInt(0), RInt(0), RInt(1)>>]

PoseIdentity == MkPose(<< <<1, 0, 0>>, <<0, 1, 0>>, <<0, 0, 1>> >>, <<0, 0, 0>>)

PoseHalfTurnX == MkPose(<< <<1, 0, 0>>, <<0, -1, 0>>, <<0, 0, -1>> >>, <<1, 0, 0>>)

PoseHalfTurnY == MkPose(<< <<-1, 0, 0>>, <<0, 1, 0>>, <<0, 0, -1>> >>, <<0, 2, 0>>)

PoseThirdTurn == MkPose(<< <<0, 0, 1>>, <<1, 0, 0>>, <<0, 1, 0>> >>, <<1, 1, 1>>)

SourcePoses ==
    {PoseIdentity, PoseHalfTurnX, PoseHalfTurnY, PoseThirdTurn}

SeqsUpTo(S, n) == UNION {[1..m -> S] : m \in 0..n}

(***************************************************************************)
(* change_video_framecount.py: frames, blending, index mapping, rate.      *)
(* A frame is a raster of one shape (height, width) holding one 8-bit      *)
(* intensity; blending is elementwise, so one intensity stands for all.    *)
(***************************************************************************)
FrameShape == <<2, 3>>

Pixels == {0, 255}

SourceFrames == [shape : {FrameShape}, pix : Pixels]

\* Rates the container may report (0: unavailable).
ReportedFps == {RInt(0), RInt(24)}

saturate_u8(v) == IF v < 0 THEN 0 ELSE IF v > 255 THEN 255 ELSE v

\* cv2.addWeighted(a, wa, b, wb, gamma)
addWeighted(a, wa, b, wb, gamma) ==
    [shape |-> a.shape,
     pix |-> saturate_u8(RRound(RAdd(RAdd(RMul(RInt(a.pix), wa),
                                          RMul(RInt(b.pix), wb)), gamma)))]

FrameIndex(k, N, M) ==
    LET p == Rat(k * N, M)
        i == RFloor(p)
    IN  [p |-> p, i |-> i, alpha |-> RSub(p, RInt(i))]

\* for k in range(M)
FrameRange(k, M) == k < M

\* The list indices the loop body reads for target index k.
FrameAccesses(k, N, M) ==
    LET i == FrameIndex(k, N, M).i
    IN  IF i < 0 THEN {0}
        ELSE IF i >= N - 1 THEN {-1}
        ELSE {i, i + 1}

\* Faulty variant: the boundary branch selects the first frame.
resample_frames_at_first(frames, k, N, M) ==
    LET ix == FrameIndex(k, N, M)
        i == ix.i
        alpha == ix.alpha
    IN  IF i < 0 THEN PyGet(frames, 0)
        ELSE IF i >= N - 1 THEN PyGet(frames, 0)
        ELSE addWeighted(PyGet(frames, i), RSub(RInt(1), alpha),
                         PyGet(frames, i + 1), alpha, RInt(0))

resample_frames_at(frames, k, N, M) ==
    LET ix == FrameIndex(k, N, M)
        i == ix.i
        alpha == ix.alpha
    IN  IF i < 0 THEN PyGet(frames, 0)
        ELSE IF i >= N - 1 THEN PyGet(frames, -1)
        ELSE addWeighted(PyGet(frames, i), RSub(RInt(1), alpha),
                         PyGet(frames, i + 1), alpha, RInt(0))

DefaultFps == 30

Duration(N, fps) ==
    IF RLt(RInt(0), fps) THEN RDiv(RInt(N), fps) ELSE RInt(N)

\* Faulty variant: the quotient inverted.
FpsNew_inverted(M, N, fps) ==
    LET duration == Duration(N, fps)
    IN  IF RLt(RInt(0), duration) THEN RDiv(duration, RInt(M)) ELSE fps

FpsNew(M, N, fps) ==
    LET duration == Duration(N, fps)
    IN  IF RLt(RInt(0), duration) THEN RDiv(RInt(M), duration) ELSE fps

(***************************************************************************)
(* Exit statuses.  The pose tool exits with its own status per check and   *)
(* lets resample_poses' ValueError escape (the interpreter then exits with *)
(* status 1); the video tool exits 2 for a missing input and turns every   *)
(* exception of resample_frames into status 1.                             *)
(***************************************************************************)
\* Faulty variant: the missing field reported with the status of the missing input.
PoseExit_shared(cat) ==
    CASE cat = "InputNotFound" -> 2
      [] cat = "MissingField" -> 2
      [] cat = "InvalidTargetCount" -> 4
      [] OTHER -> 1

PoseExit(cat) ==
    CASE cat = "InputNotFound" -> 2
      [] cat = "MissingField" -> 3
      [] cat = "InvalidTargetCount" -> 4
      [] OTHER -> 1

VideoExit(cat) == IF cat = "InputNotFound" THEN 2 ELSE 1

(***************************************************************************)
(* State.                                                                  *)
(***************************************************************************)
VARIABLES
    tool,         \* "none", "pose" or "video": the tool invoked
    pc,           \* position in the invoked tool
    target,       \* args.frames
    poses,        \* pose tool: data['poses']
    out,          \* pose tool: resample_poses' out
    output,       \* pose tool: the documents written to the output path
    decoder,      \* video tool: cap ("none", "open", "failed", "released")
    fps_orig, frame_count, width, height, frames,
    fps_new,
    encoder,      \* video tool: out ("none", "open", "failed", "released")
    written,      \* video tool: the frames handed to out.write
    k,            \* the loop's target index
    maps,         \* the index mapping computed for each target index so far
    status,       \* exit status
    err,          \* error category the invocation ended with ("none": none)
    prev          \* tool, category and status of the last failed invocation

vars == <<tool, pc, target, poses, out, output, decoder, fps_orig, frame_count,
          width, height, frames, fps_new, encoder, written, k, maps, status,
          err, prev>>

poseVars == <<poses, out, output>>

videoVars == <<decoder, fps_orig, frame_count, width, height, frames, fps_new,
               encoder, written>>

NoRun == [tool |-> "none", err |-> "none", status |-> 0]

Fresh ==
    /\ poses = <<>>
    /\ out = <<>>
    /\ output = <<>>
    /\ decoder = "none"
    /\ fps_orig = RInt(0)
    /\ frame_count = 0
    /\ width = 0
    /\ height = 0
    /\ frames = <<>>
    /\ fps_new = RInt(0)
    /\ encoder = "none"
    /\ written = <<>>
    /\ k = 0
    /\ maps = <<>>
    /\ status = 0
    /\ err = "none"

Init ==
    /\ tool = "none"
    /\ pc = "idle"
    /\ target = 0
    /\ Fresh
    /\ prev = NoRun

\* A tool is started with its arguments parsed (-m is an int).
Invoke ==
    /\ pc \in {"idle", "exit"}
    /\ tool' \in {"pose", "video"}
    /\ target' \in 0..MaxTarget
    /\ pc' = "main"
    /\ prev' = IF pc = "exit" /\ err # "none"
               THEN [tool |-> tool, err |-> err, status |-> status]
               ELSE prev
    /\ poses' = <<>>
    /\ out' = <<>>
    /\ output' = <<>>
    /\ decoder' = "none"
    /\ fps_orig' = RInt(0)
    /\ frame_count' = 0
    /\ width' = 0
    /\ height' = 0
    /\ frames' = <<>>
    /\ fps_new' = RInt(0)
    /\ encoder' = "none"
    /\ written' = <<>>
    /\ k' = 0
    /\ maps' = <<>>
    /\ status' = 0
    /\ err' = "none"

(***************************************************************************)
(* change_camera_framecount.py: main and resample_poses.                   *)
(***************************************************************************)
PoseFail(cat) ==
    /\ pc' = "exit"
    /\ err' = cat
    /\ status' = PoseExit(cat)

\* os.path.exists(args.input)
PMain ==
    /\ tool = "pose" /\ pc = "main"
    /\ \E exists \in BOOLEAN :
          IF exists
          THEN pc' = "p_load" /\ UNCHANGED <<err, status>>
          ELSE PoseFail("InputNotFound")
    /\ UNCHANGED <<tool, target, poseVars, videoVars, k, maps, prev>>

\* json.load, then the check for the 'poses' key
PLoad ==
    /\ tool = "pose" /\ pc = "p_load"
    /\ \E hasPoses \in BOOLEAN, ps \in SeqsUpTo(SourcePoses, MaxPoses) :
          IF hasPoses
          THEN /\ poses' = ps
               /\ pc' = "p_target"
               /\ UNCHANGED <<err, status>>
          ELSE /\ ps = <<>>
               /\ PoseFail("MissingField")
               /\ UNCHANGED poses
    /\ UNCHANGED <<tool, target, out, output, videoVars, k, maps, prev>>

\* M = int(args.frames); M <= 0 exits
PCheckTarget ==
    /\ tool = "pose" /\ pc = "p_target"
    /\ IF target <= 0
       THEN PoseFail("InvalidTargetCount")
       ELSE pc' = "p_resample" /\ UNCHANGED <<err, status>>
    /\ UNCHANGED <<tool, target, poseVars, videoVars, k, maps, prev>>

\* resample_poses: N == 0 raises ValueError, which main does not catch
PResampleStart ==
    /\ tool = "pose" /\ pc = "p_resample"
    /\ IF Len(poses) = 0
       THEN PoseFail("EmptyInput") /\ UNCHANGED <<out, k>>
       ELSE /\ out' = <<>>
            /\ k' = 0
            /\ pc' = "p_loop"
            /\ UNCHANGED <<err, status>>
    /\ UNCHANGED <<tool, target, poses, output, videoVars, maps, prev>>

\* one pass of `for k in range(M)`
PLoopStep ==
    /\ tool = "pose" /\ pc = "p_loop"
    /\ PoseRange(k, target)
    /\ out' = Append(out, resample_poses_at(poses, k, target))
    /\ maps' = Append(maps, PoseIndex(k, Len(poses), target))
    /\ k' = k + 1
    /\ UNCHANGED <<tool, pc, target, poses, output, videoVars, status, err, prev>>

\* return out; main writes the output document
PFinish ==
    /\ tool = "pose" /\ pc = "p_loop"
    /\ ~PoseRange(k, target)
    /\ output' = <<[poses |-> out,
                    original_num_poses |-> Len(poses),
                    target_num_poses |-> target]>>
    /\ pc' = "exit"
    /\ status' = 0
    /\ UNCHANGED <<tool, target, poses, out, videoVars, k, maps, err, prev>>

(***************************************************************************)
(* change_video_framecount.py: main and resample_frames.  Every exception  *)
(* resample_frames raises is caught by main, which exits with status 1.    *)
(***************************************************************************)
VideoFail(cat) ==
    /\ pc' = "exit"
    /\ err' = cat
    /\ status' = VideoExit(cat)

\* os.path.exists(args.input)
VMain ==
    /\ tool = "video" /\ pc = "main"
    /\ \E exists \in BOOLEAN :
          IF exists
          THEN pc' = "v_open" /\ UNCHANGED <<err, status>>
          ELSE VideoFail("InputNotFound")
    /\ UNCHANGED <<tool, target, poseVars, videoVars, k, maps, prev>>

\* cap = cv2.VideoCapture(input_path); cap.isOpened()
VOpen ==
    /\ tool = "video" /\ pc = "v_open"
    /\ \E opened \in BOOLEAN :
          IF opened
          THEN /\ decoder' = "open"
               /\ pc' = "v_meta"
               /\ UNCHANGED <<err, status>>
          ELSE /\ decoder' = "failed"
               /\ VideoFail("DecoderOpenFailure")
    /\ UNCHANGED <<tool, target, poseVars, fps_orig, frame_count, width, height,
                   frames, fps_new, encoder, written, k, maps, prev>>

\* the four cap.get calls: what the container reports
VMeta ==
    /\ tool = "video" /\ pc = "v_meta"
    /\ fps_orig' \in ReportedFps
    /\ frame_count' \in 0..MaxReported
    /\ width' \in {0, FrameShape[2]}
    /\ height' \in {0, FrameShape[1]}
    /\ frames' = <<>>
    /\ pc' = "v_read"
    /\ UNCHANGED <<tool, target, poseVars, decoder, fps_new, encoder, written,
                   k, maps, status, err, prev>>

\* cap.read() returns a frame
VReadFrame ==
    /\ tool = "video" /\ pc = "v_read"
    /\ Len(frames) < MaxFrames
    /\ \E frm \in SourceFrames : frames' = Append(frames, frm)
    /\ UNCHANGED <<tool, pc, target, poseVars, decoder, fps_orig, frame_count,
                   width, height, fps_new, encoder, written, k, maps, status,
                   err, prev>>

\* cap.read() returns no frame: the end of either read loop
VReadEnd ==
    /\ tool = "video" /\ pc = "v_read"
    /\ IF frame_count <= 0
       THEN IF Len(frames) = 0
            THEN /\ frame_count' = 0
                 /\ VideoFail("EmptyInput")
                 /\ UNCHANGED <<fps_orig, decoder>>
            ELSE /\ frame_count' = Len(frames)
                 /\ fps_orig' = IF RLt(RInt(0), fps_orig) THEN fps_orig
                                ELSE RInt(DefaultFps)
                 /\ decoder' = "released"
                 /\ pc' = "v_dims"
                 /\ UNCHANGED <<err, status>>
       ELSE /\ decoder' = "released"
            /\ pc' = "v_dims"
            /\ UNCHANGED <<frame_count, fps_orig, err, status>>
    /\ UNCHANGED <<tool, target, poseVars, width, height, frames, fps_new,
                   encoder, written, k, maps, prev>>

\* width or height missing: taken from frames[0].shape
VDims ==
    /\ tool = "video" /\ pc = "v_dims"
    /\ IF width = 0 \/ height = 0
       THEN IF PyIndexOK(frames, 0)
            THEN /\ width' = PyGet(frames, 0).shape[2]
                 /\ height' = PyGet(frames, 0).shape[1]
                 /\ pc' = "v_target"
                 /\ UNCHANGED <<err, status>>
            ELSE /\ VideoFail("IndexError")
                 /\ UNCHANGED <<width, height>>
       ELSE /\ pc' = "v_target"
            /\ UNCHANGED <<width, height, err, status>>
    /\ UNCHANGED <<tool, target, poseVars, decoder, fps_orig, frame_count,
                   frames, fps_new, encoder, written, k, maps, prev>>

\* N = frame_count; M = int(target_frames); M <= 0 raises; duration, fps_new
VTarget ==
    /\ tool = "video" /\ pc = "v_target"
    /\ IF target <= 0
       THEN VideoFail("InvalidTargetCount") /\ UNCHANGED fps_new
       ELSE /\ fps_new' = FpsNew(target, frame_count, fps_orig)
            /\ pc' = "v_encoder"
            /\ UNCHANGED <<err, status>>
    /\ UNCHANGED <<tool, target, poseVars, decoder, fps_orig, frame_count,
                   width, height, frames, encoder, written, k, maps, prev>>

\* out = cv2.VideoWriter(...); out.isOpened()
VEncoder ==
    /\ tool = "video" /\ pc = "v_encoder"
    /\ \E opened \in BOOLEAN :
          IF opened
          THEN /\ encoder' = "open"
               /\ pc' = "v_loop"
               /\ k' = 0
               /\ UNCHANGED <<err, status>>
          ELSE /\ encoder' = "failed"
               /\ VideoFail("EncoderOpenFailure")
               /\ UNCHANGED k
    /\ UNCHANGED <<tool, target, poseVars, decoder, fps_orig, frame_count,
                   width, height, frames, fps_new, written, maps, prev>>

\* one pass of `for k in range(M)`: select or blend, then out.write(frame)
VLoopStep ==
    /\ tool = "video" /\ pc = "v_loop"
    /\ FrameRange(k, target)
    /\ IF \A j \in FrameAccesses(k, frame_count, target) : PyIndexOK(frames, j)
       THEN /\ written' = Append(written,
                                 resample_frames_at(frames, k, frame_count, target))
            /\ maps' = Append(maps, FrameIndex(k, frame_count, target))
            /\ k' = k + 1
            /\ UNCHANGED <<pc, err, status>>
       ELSE /\ VideoFail("IndexError")
            /\ UNCHANGED <<written, maps, k>>
    /\ UNCHANGED <<tool, target, poseVars, decoder, fps_orig, frame_count,
                   width, height, frames, fps_new, encoder, prev>>

\* out.release(); main reports success
VFinish ==
    /\ tool = "video" /\ pc = "v_loop"
    /\ ~FrameRange(k, target)
    /\ encoder' = "released"
    /\ pc' = "exit"
    /\ status' = 0
    /\ UNCHANGED <<tool, target, poseVars, decoder, fps_orig, frame_count,
                   width, height, frames, fps_new, written, k, maps, err, prev>>

Next ==
    \/ Invoke
    \/ PMain \/ PLoad \/ PCheckTarget \/ PResampleStart \/ PLoopStep \/ PFinish
    \/ VMain \/ VOpen \/ VMeta \/ VReadFrame \/ VReadEnd \/ VDims \/ VTarget
    \/ VEncoder \/ VLoopStep \/ VFinish

Spec == Init /\ [][Next]_vars

(***************************************************************************)
(* Properties.                                                             *)
(***************************************************************************)
\* The loop bound N of the running tool: len(poses), or frame_count.
SourceLen == IF tool = "pose" THEN Len(poses) ELSE frame_count

\* The error categories of the taxonomy.
Categories ==
    {"InputNotFound", "MissingField", "InvalidTargetCount", "EmptyInput",
     "DecoderOpenFailure", "EncoderOpenFailure"}

\* The rate has been derived (lines 67-68 have run).
RateDerived ==
    /\ tool = "video"
    /\ \/ pc \in {"v_encoder", "v_loop"}
       \/ pc = "exit" /\ encoder # "none"

(* C1 as stated: for every source length N >= 1 and target M >= 1,        *)
(* resample_poses returns exactly M poses, and the frame loop writes       *)
(* exactly M frames, one per target index 0..M-1 in order: a pose run that *)
(* reached resample_poses with N >= 1 ends with M poses, and a video run   *)
(* that entered the frame loop with N >= 1 decoded frames ends with M      *)
(* frames written.                                                         *)
C1_ExactlyMItems ==
    /\ (tool = "pose" /\ pc = "p_loop") => (k <= target /\ Len(out) = k)
    /\ (tool = "pose" /\ pc = "exit" /\ Len(poses) >= 1 /\ target >= 1) =>
          (err = "none" /\ Len(out) = target)
    /\ (tool = "video" /\ pc = "v_loop") => (k <= target /\ Len(written) = k)
    /\ (tool = "video" /\ pc = "exit" /\ encoder \in {"open", "released"}
          /\ Len(frames) >= 1) =>
          (err = "none" /\ Len(written) = target)
    /\ \A j \in 1..Len(maps) : maps[j].p = Rat((j - 1) * SourceLen, target)

(* What holds in place of C1: both loops produce one item per target index *)
(* in order and never more than M; a run that ends without error has       *)
(* produced exactly M; the pose loop cannot fail, and the frame loop fails *)
(* only when frame_count is not the length of the decoded list.            *)
ExactlyMUnlessCountWrong ==
    /\ (tool = "pose" /\ pc = "p_loop") =>
          (k <= target /\ Len(out) = k /\ Len(maps) = k)
    /\ (tool = "pose" /\ pc = "exit" /\ err = "none") =>
          /\ Len(poses) >= 1 /\ target >= 1
          /\ Len(out) = target
          /\ Len(output) = 1 /\ Len(output[1].poses) = target
    /\ (tool = "pose" /\ pc = "exit" /\ err = "EmptyInput") => Len(poses) = 0
    /\ (tool = "video" /\ pc = "v_loop") =>
          (k <= target /\ Len(written) = k /\ Len(maps) = k)
    /\ (tool = "video" /\ pc = "exit" /\ err = "none") =>
          /\ frame_count >= 1 /\ target >= 1
          /\ Len(written) = target
    /\ (tool = "video" /\ pc = "exit" /\ err = "IndexError") =>
          frame_count # Len(frames)
    /\ \A j \in 1..Len(maps) : maps[j].p = Rat((j - 1) * SourceLen, target)

(* C2: boundary clamp.  Every output item whose mapped neighbour index     *)
(* i = floor(k*N/M) is at least N-1 is the last source item, whatever the  *)
(* weight, in the pose resampler and in the frame resampler; and a pass of *)
(* the frame loop that takes the clamp reads only the last element, which  *)
(* exists as soon as one frame was decoded.                                *)
C2_BoundaryClamp ==
    /\ (tool = "video" /\ pc = "v_loop" /\ FrameRange(k, target)
          /\ (k * frame_count) \div target >= frame_count - 1) =>
          /\ FrameAccesses(k, frame_count, target) = {-1}
          /\ Len(frames) >= 1 => PyIndexOK(frames, -1)
    /\ tool = "pose" =>
          \A j \in 1..Len(out) :
              ((j - 1) * Len(poses)) \div target >= Len(poses) - 1
                  => out[j] = poses[Len(poses)]
    /\ tool = "video" =>
          \A j \in 1..Len(written) :
              ((j - 1) * frame_count) \div target >= frame_count - 1
                  => written[j] = frames[Len(frames)]

\* C2 witness: N = 2, M = 3, k = 2 maps to p = 4/3, i = 1 = N-1 with a
\* non-zero weight, and the last frame differs from the first.
C2_Witness ==
    /\ tool = "video"
    /\ Len(frames) = 2 /\ frame_count = 2 /\ target = 3
    /\ frames[1] # frames[2]
    /\ Len(written) = 3
    /\ maps[3].i = 1 /\ maps[3].alpha # RInt(0)
    /\ written[3] = frames[2]

(* C3 as stated: resampling N items to M = N yields at every target index *)
(* k the source item k, for poses (N = len(poses)) and for frames          *)
(* (N = frame_count, the loop's N).                                        *)
C3_Identity ==
    /\ (tool = "pose" /\ target = Len(poses)) =>
          \A j \in 1..Len(out) : out[j] = poses[j]
    /\ (tool = "video" /\ target = frame_count) =>
          \A j \in 1..Len(written) :
              j <= Len(frames) /\ written[j] = frames[j]

(* What holds in place of C3: the identity for poses, and for frames when  *)
(* frame_count is the length of the decoded list; every index then maps to *)
(* i = k with weight 0.                                                    *)
IdentityWhenCountRight ==
    /\ (tool = "pose" /\ target = Len(poses)) =>
          \A j \in 1..Len(out) :
              /\ out[j] = poses[j]
              /\ maps[j].i = j - 1 /\ maps[j].alpha = RInt(0)
    /\ (tool = "video" /\ target = frame_count /\ frame_count = Len(frames)) =>
          \A j \in 1..Len(written) :
              /\ written[j] = frames[j]
              /\ maps[j].i = j - 1 /\ maps[j].alpha = RInt(0)

C5_DistinctStatusPerCategory ==
    (/\ pc = "exit" /\ err \in Categories
     /\ prev.tool = tool /\ prev.err \in Categories /\ prev.err # err)
        => prev.status # status

(* C5 amended: every category ends the invocation with a non-zero status   *)
(* and no output document; in the pose tool different categories have      *)
(* different statuses; in the video tool InputNotFound has status 2 and    *)
(* every other category the one status 1.                                  *)
C5_ExitStatusByTool ==
    (pc = "exit" /\ err \in Categories) =>
        /\ status # 0
        /\ output = <<>>
        /\ (tool = "pose" /\ prev.tool = "pose" /\ prev.err \in Categories
               /\ prev.err # err) => prev.status # status
        /\ tool = "video" => status = (IF err = "InputNotFound" THEN 2 ELSE 1)

\* C5 witness: a video invocation failing to open the encoder after one
\* that failed on an empty input, both with the same status.
C5_Witness ==
    /\ pc = "exit" /\ tool = "video" /\ err = "EncoderOpenFailure"
    /\ prev.tool = "video" /\ prev.err = "EmptyInput"
    /\ prev.status = status

(* C6 as stated: an invocation whose decoder opened and decoded no frame   *)
(* ends with EmptyInput, whatever the container reports and whatever the   *)
(* target count.                                                           *)
C6_EmptyInputWheneverNoFrames ==
    (/\ tool = "video" /\ pc = "exit"
     /\ decoder \in {"open", "released"}
     /\ Len(frames) = 0)
        => err = "EmptyInput"

(* C7: the mapping is monotonic non-decreasing in k and a function of      *)
(* (N, M, k): for target indices k1 < k2, p(k1) <= p(k2) and               *)
(* i(k1) <= i(k2), with p(k) = k*N/M and i(k) = floor(p(k)).               *)
C7_MonotonicMapping ==
    /\ \A j \in 1..Len(maps) :
          /\ maps[j].p = Rat((j - 1) * SourceLen, target)
          /\ maps[j].i = ((j - 1) * SourceLen) \div target
    /\ \A a, b \in 1..Len(maps) :
          a < b => (~RLt(maps[b].p, maps[a].p) /\ maps[a].i <= maps[b].i)

\* C7 witness: 2 poses to 3: the neighbour index goes 0, 0, 1.
C7_Witness ==
    /\ tool = "pose" /\ Len(poses) = 2 /\ target = 3
    /\ Len(maps) = 3
    /\ maps[1].i = 0 /\ maps[2].i = 0 /\ maps[3].i = 1
    /\ RLt(maps[1].p, maps[2].p) /\ RLt(maps[2].p, maps[3].p)

(* C8 as stated: when k*N is divisible by M the output item at k is the    *)
(* source item k*N/M unchanged, for poses (N = len(poses)) and for frames  *)
(* (N = frame_count, the loop's N).                                        *)
C8_ExactHits ==
    /\ tool = "pose" =>
          \A j \in 1..Len(out) :
              ((j - 1) * Len(poses)) % target = 0 =>
                  out[j] = poses[((j - 1) * Len(poses)) \div target + 1]
    /\ tool = "video" =>
          \A j \in 1..Len(written) :
              ((j - 1) * frame_count) % target = 0 =>
                  LET src == ((j - 1) * frame_count) \div target + 1
                  IN  src <= Len(frames) /\ written[j] = frames[src]

(* What holds in place of C8: exact hits have weight 0 and select the      *)
(* source item k*N/M for poses, and for frames when frame_count is the     *)
(* length of the decoded list.  N = 10, M = 5, k = 2 selects index 4.      *)
ExactHitsWhenCountRight ==
    /\ tool = "pose" =>
          \A j \in 1..Len(out) :
              ((j - 1) * Len(poses)) % target = 0 =>
                  /\ maps[j].alpha = RInt(0)
                  /\ out[j] = poses[((j - 1) * Len(poses)) \div target + 1]
    /\ (tool = "video" /\ frame_count = Len(frames)) =>
          \A j \in 1..Len(written) :
              ((j - 1) * frame_count) % target = 0 =>
                  /\ maps[j].alpha = RInt(0)
                  /\ written[j] = frames[((j - 1) * frame_count) \div target + 1]
    /\ FrameIndex(2, 10, 5).i = 4 /\ FrameIndex(2, 10, 5).alpha = RInt(0)
    /\ PoseIndex(2, 10, 5).i = 4 /\ PoseIndex(2, 10, 5).alpha = RInt(0)

(* C9 as stated: every frame access of the per-index loop (frames[i],      *)
(* frames[i+1], frames[-1]) and of the dimension fallback (frames[0])      *)
(* refers to an element of the decoded list.                               *)
C9_FrameAccessesInRange ==
    /\ (tool = "video" /\ pc = "v_loop" /\ FrameRange(k, target)) =>
          \A j \in FrameAccesses(k, frame_count, target) : PyIndexOK(frames, j)
    /\ (tool = "video" /\ pc = "v_dims" /\ (width = 0 \/ height = 0)) =>
          PyIndexOK(frames, 0)

(* C10 as stated: the encoder is opened only after the decoder opened, the *)
(* input was read to its end and found non-empty and M > 0 was validated;  *)
(* a run failing with DecoderOpenFailure, EmptyInput or InvalidTargetCount *)
(* never opens it; a failure after it was opened is EncoderOpenFailure or  *)
(* a failure of the frame loop.                                            *)
C10_EncoderOpenedLast ==
    /\ (tool = "video" /\ encoder # "none") =>
          /\ decoder = "released"
          /\ Len(frames) >= 1
          /\ target >= 1
    /\ (tool = "video" /\ pc = "exit"
          /\ err \in {"DecoderOpenFailure", "EmptyInput", "InvalidTargetCount"})
          => encoder = "none"
    /\ (tool = "video" /\ pc = "exit" /\ encoder # "none" /\ err # "none")
          => err \in {"EncoderOpenFailure", "IndexError"}

=============================================================================
